---- MODULE Spec2Model ----
(***************************************************************************)
(* Model of the two Lambda functions of BharatAI:                          *)
(*   task2-bedrock-ai-lambda  : the roadmap pipeline (lambda_handler,      *)
(*       determine_user_level, generate_learning_roadmap, build_prompt,    *)
(*       parse_ai_response, error_response)                                *)
(*   task1-dynamodb-lambda    : the profile store (store_profile,          *)
(*       get_profile)                                                      *)
(*                                                                         *)
(* Python values are records of one shape                                  *)
(*     [t, n, frac, s, items, keys]                                        *)
(* t is the Python type; n the integer part of a number (floor), frac says *)
(* that a float is n + 1/2; s is the text of a str, one character per      *)
(* element; items are the elements of a list or the values of a dict, keys *)
(* the keys of a dict (each a text).                                       *)
(***************************************************************************)
EXTENDS Integers, Sequences, FiniteSets, TLC

VARIABLES
    pc,           \* position of the roadmap lambda_handler
    event,        \* the event of the request in progress
    weak_topics,  \* local of lambda_handler
    total_solved, \* local of lambda_handler
    user_level,   \* local of lambda_handler
    prompt,       \* local of generate_learning_roadmap
    ai_response,  \* local of generate_learning_roadmap (content[0].text)
    roadmap,      \* value returned by parse_ai_response
    response,     \* value returned by lambda_handler
    invocations,  \* calls of bedrock_runtime.invoke_model in this request
    reached,      \* stages of the pipeline this request has entered
    modelOutcome, \* how the invocation of this request ended: "", raise, no_text, text
    xRaw,         \* extraction study: the raw reply
    xOut,         \* extraction study: json_str computed from xRaw
    xDone,        \* extraction study: extraction applied
    lvIn,         \* classification study: total_solved
    lvOut,        \* classification study: determine_user_level(lvIn)
    table,        \* DynamoDB table UserSkillProfiles: user_id -> item
    pEvent,       \* profile lambda: last event handled
    pResponse,    \* profile lambda: last response returned
    stored        \* history: user_id -> profile_data of the last successful store_profile

roadmapVars == <<pc, event, weak_topics, total_solved, user_level, prompt,
                 ai_response, roadmap, response, invocations, reached, modelOutcome>>
extractVars == <<xRaw, xOut, xDone>>
levelVars   == <<lvIn, lvOut>>
profileVars == <<table, pEvent, pResponse, stored>>
vars == <<roadmapVars, extractVars, levelVars, profileVars>>
nonRoadmapVars == <<extractVars, levelVars, profileVars>>
nonExtractVars == <<roadmapVars, levelVars, profileVars>>
nonLevelVars   == <<roadmapVars, extractVars, profileVars>>
nonProfileVars == <<roadmapVars, extractVars, levelVars>>

----------------------------------------------------------------------------
(* Bounds *)
MaxChunks == 3      \* pieces a raw reply of the extraction study is built from
MaxNeg    == 3      \* the classification study starts at total_solved = -MaxNeg
MaxSolved == 203    \* greatest total_solved of the classification study

----------------------------------------------------------------------------
(* Python values *)
Mk(t, n, frac, s, items, keys) ==
    [t |-> t, n |-> n, frac |-> frac, s |-> s, items |-> items, keys |-> keys]

Absent        == Mk("absent", 0, FALSE, <<>>, <<>>, <<>>)   \* key not in the dict
PyNone        == Mk("none", 0, FALSE, <<>>, <<>>, <<>>)
PyBool(b)     == Mk("bool", IF b THEN 1 ELSE 0, FALSE, <<>>, <<>>, <<>>)
PyInt(n)      == Mk("int", n, FALSE, <<>>, <<>>, <<>>)
PyFloat(n, h) == Mk("float", n, h, <<>>, <<>>, <<>>)
PyDecimal(n)  == Mk("decimal", n, FALSE, <<>>, <<>>, <<>>)
PyStr(s)      == Mk("str", 0, FALSE, s, <<>>, <<>>)
PyList(xs)    == Mk("list", 0, FALSE, <<>>, xs, <<>>)
PyDict(ks, xs) == Mk("dict", 0, FALSE, <<>>, xs, ks)

\* bool(v): Python truth value
Truthy(v) ==
    CASE v.t \in {"absent", "none"}      -> FALSE
      [] v.t \in {"bool", "int", "decimal"} -> v.n # 0
      [] v.t = "float"                    -> v.n # 0 \/ v.frac
      [] v.t = "str"                      -> Len(v.s) > 0
      [] v.t = "list"                     -> Len(v.items) > 0
      [] v.t = "dict"                     -> Len(v.keys) > 0

\* isinstance(v, list)
IsInstanceList(v) == v.t = "list"

\* isinstance(v, (int, float)); bool is a subclass of int
IsInstanceIntFloat(v) == v.t \in {"int", "float", "bool"}

\* v < k for a number v and an integer k (n + 1/2 < k iff n < k)
LessThan(v, k) == v.n < k

\* dict.get(key, default)
DictGet(d, key, default) == IF d[key].t = "absent" THEN default ELSE d[key]

----------------------------------------------------------------------------
(* Text: sequences of characters *)
BT == "BT"     \* the backtick character
NL == "\n"
Whitespace == {" ", "\n", "\t", "\r"}

Fence     == <<BT, BT, BT>>
JsonFence == <<BT, BT, BT, "j", "s", "o", "n">>

SetMin(S) == CHOOSE m \in S : \A o \in S : m <= o
SetMax(S) == CHOOSE m \in S : \A o \in S : m >= o

\* sub occurs in s at the 0-based index i
MatchAt(s, sub, i) ==
    /\ i >= 0
    /\ i + Len(sub) <= Len(s)
    /\ \A k \in 1..Len(sub) : s[i + k] = sub[k]

\* s.find(sub, start), 0-based, -1 when absent
Find(s, sub, start) ==
    LET hits == {i \in start..(Len(s) - Len(sub)) : MatchAt(s, sub, i)}
    IN  IF hits = {} THEN 0 - 1 ELSE SetMin(hits)

\* sub in s
Contains(s, sub) == Find(s, sub, 0) # 0 - 1

\* s[start:end] with Python's treatment of negative and oversized indices
Slice(s, start, end) ==
    LET len == Len(s)
        norm(i) == IF i < 0 THEN (IF i + len < 0 THEN 0 ELSE i + len)
                   ELSE (IF i > len THEN len ELSE i)
        lo == norm(start)
        hi == norm(end)
    IN  IF lo >= hi THEN <<>> ELSE SubSeq(s, lo + 1, hi)

\* s.strip()
Strip(s) ==
    LET keep == {i \in 1..Len(s) : s[i] \notin Whitespace}
    IN  IF keep = {} THEN <<>> ELSE SubSeq(s, SetMin(keep), SetMax(keep))

RECURSIVE Join(_, _)
\* sep.join(texts) for a sequence of texts
Join(sep, texts) ==
    IF Len(texts) = 0 THEN <<>>
    ELSE IF Len(texts) = 1 THEN texts[1]
    ELSE texts[1] \o sep \o Join(sep, Tail(texts))

----------------------------------------------------------------------------
(* json.loads on the JSON subset of objects, arrays, strings without       *)
(* escapes and non-negative integers                                       *)
Digits == {"0", "1", "2", "3", "4", "5", "6", "7", "8", "9"}
DigitVal(c) ==
    CASE c = "0" -> 0 [] c = "1" -> 1 [] c = "2" -> 2 [] c = "3" -> 3
      [] c = "4" -> 4 [] c = "5" -> 5 [] c = "6" -> 6 [] c = "7" -> 7
      [] c = "8" -> 8 [] c = "9" -> 9

ParseFail == [ok |-> FALSE, val |-> PyNone, next |-> 0]
ParseOk(v, next) == [ok |-> TRUE, val |-> v, next |-> next]

\* first index >= i of s that holds no JSON whitespace, Len(s) + 1 if none
SkipWs(s, i) ==
    LET rest == {j \in i..Len(s) : s[j] \notin Whitespace}
    IN  IF rest = {} THEN Len(s) + 1 ELSE SetMin(rest)

\* a string literal opening at s[i] = quote; control characters are rejected
ParseString(s, i) ==
    LET closing == {j \in (i + 1)..Len(s) : s[j] = "\""}
    IN  IF closing = {} THEN ParseFail
        ELSE LET k == SetMin(closing)
                 body == SubSeq(s, i + 1, k - 1)
             IN  IF \E j \in 1..Len(body) : body[j] \in {"\n", "\t", "\r"}
                 THEN ParseFail
                 ELSE ParseOk(PyStr(body), k + 1)

RECURSIVE DigitsVal(_)
DigitsVal(ds) ==
    IF Len(ds) = 0 THEN 0
    ELSE 10 * DigitsVal(SubSeq(ds, 1, Len(ds) - 1)) + DigitVal(ds[Len(ds)])

\* an integer literal opening at the digit s[i]; a leading 0 stands alone
ParseNumber(s, i) ==
    LET stop == {j \in i..Len(s) : s[j] \notin Digits}
        last == IF s[i] = "0" THEN i
                ELSE IF stop = {} THEN Len(s) ELSE SetMin(stop) - 1
    IN  ParseOk(PyInt(DigitsVal(SubSeq(s, i, last))), last + 1)

\* d[k] = v on a dict given as keys and values: a repeated key keeps its place
DictPut(ks, vs, k, v) ==
    IF \E i \in 1..Len(ks) : ks[i] = k
    THEN [keys |-> ks,
          items |-> [i \in 1..Len(vs) |-> IF ks[i] = k THEN v ELSE vs[i]]]
    ELSE [keys |-> Append(ks, k), items |-> Append(vs, v)]

RECURSIVE ParseValue(_, _)
RECURSIVE ParseElems(_, _, _)
RECURSIVE ParseMembers(_, _, _, _)

\* the elements of an array from the value at s[i] to the closing bracket
ParseElems(s, i, acc) ==
    LET r == ParseValue(s, i)
    IN  IF ~r.ok THEN ParseFail
        ELSE LET j == SkipWs(s, r.next)
             IN  IF j > Len(s) THEN ParseFail
                 ELSE IF s[j] = "," THEN ParseElems(s, SkipWs(s, j + 1), Append(acc, r.val))
                 ELSE IF s[j] = "]" THEN ParseOk(PyList(Append(acc, r.val)), j + 1)
                 ELSE ParseFail

\* the members of an object from the key at s[i] to the closing brace
ParseMembers(s, i, ks, vs) ==
    IF i > Len(s) \/ s[i] # "\"" THEN ParseFail
    ELSE LET k == ParseString(s, i)
         IN  IF ~k.ok THEN ParseFail
             ELSE LET c == SkipWs(s, k.next)
                  IN  IF c > Len(s) \/ s[c] # ":" THEN ParseFail
                      ELSE LET r == ParseValue(s, SkipWs(s, c + 1))
                           IN  IF ~r.ok THEN ParseFail
                               ELSE LET j == SkipWs(s, r.next)
                                        d == DictPut(ks, vs, k.val.s, r.val)
                                    IN  IF j > Len(s) THEN ParseFail
                                        ELSE IF s[j] = ","
                                        THEN ParseMembers(s, SkipWs(s, j + 1), d.keys, d.items)
                                        ELSE IF s[j] = "}"
                                        THEN ParseOk(PyDict(d.keys, d.items), j + 1)
                                        ELSE ParseFail

\* the JSON value that opens at s[i]
ParseValue(s, i) ==
    IF i > Len(s) THEN ParseFail
    ELSE IF s[i] = "{" THEN
        LET j == SkipWs(s, i + 1)
        IN  IF j <= Len(s) /\ s[j] = "}" THEN ParseOk(PyDict(<<>>, <<>>), j + 1)
            ELSE ParseMembers(s, j, <<>>, <<>>)
    ELSE IF s[i] = "[" THEN
        LET j == SkipWs(s, i + 1)
        IN  IF j <= Len(s) /\ s[j] = "]" THEN ParseOk(PyList(<<>>), j + 1)
            ELSE ParseElems(s, j, <<>>)
    ELSE IF s[i] = "\"" THEN ParseString(s, i)
    ELSE IF s[i] \in Digits THEN ParseNumber(s, i)
    ELSE ParseFail

\* json.loads(s): ok = FALSE stands for json.JSONDecodeError
JsonLoads(s) ==
    LET r == ParseValue(s, SkipWs(s, 1))
    IN  IF r.ok /\ SkipWs(s, r.next) = Len(s) + 1 THEN r ELSE ParseFail

RECURSIVE Serializable(_)
\* json.dumps accepts v: decimal.Decimal has no JSON encoding (TypeError)
Serializable(v) ==
    /\ v.t # "decimal"
    /\ \A i \in 1..Len(v.items) : Serializable(v.items[i])

\* `text in v` raises TypeError: v is not a container
InRaises(v) == v.t \notin {"dict", "list", "str"}

\* `text in v` for a dict (its keys), a list (its elements), a str (substring)
In(text, v) ==
    CASE v.t = "dict" -> \E i \in 1..Len(v.keys) : v.keys[i] = text
      [] v.t = "list" -> \E i \in 1..Len(v.items) : v.items[i] = PyStr(text)
      [] v.t = "str"  -> Contains(v.s, text)
      [] OTHER        -> FALSE

----------------------------------------------------------------------------
(* task2-bedrock-ai-lambda: pure parts *)
Now == "utcnow"     \* datetime.utcnow().isoformat()

KeyRoadmap == <<"r", "o", "a", "d", "m", "a", "p">>
KeyPlan    == <<"p", "l", "a", "n">>

\* determine_user_level with `<= 50` for `< 50`
determine_user_level_inclusive(ts) ==
    IF ts.n < 50 \/ (ts.n = 50 /\ ~ts.frac) THEN "Beginner"
    ELSE IF LessThan(ts, 200) THEN "Intermediate"
    ELSE "Advanced"

\* determine_user_level(total_solved)
determine_user_level(ts) ==
    IF LessThan(ts, 50) THEN "Beginner"
    ELSE IF LessThan(ts, 200) THEN "Intermediate"
    ELSE "Advanced"

\* a join that renders every element with str() and so never raises
JoinNeverRaises(wt) == FALSE

\* ", ".join(weak_topics) raises TypeError: some element is not a str
JoinRaises(wt) == \E i \in 1..Len(wt.items) : wt.items[i].t # "str"

\* build_prompt(weak_topics, user_level): the two fields the template renders
build_prompt(wt, level) ==
    [skill_level |-> level,
     topics_str  |-> Join(<<",", " ">>, [i \in 1..Len(wt.items) |-> wt.items[i].s])]

\* the extraction with the strip() of the else branch left out
extract_json_str_unstripped(ai) ==
    IF Contains(ai, JsonFence) THEN
        LET start == Find(ai, JsonFence, 0) + 7
            end   == Find(ai, Fence, start)
        IN  Strip(Slice(ai, start, end))
    ELSE IF Contains(ai, Fence) THEN
        LET start == Find(ai, Fence, 0) + 3
            end   == Find(ai, Fence, start)
        IN  Strip(Slice(ai, start, end))
    ELSE ai

\* the extraction of parse_ai_response: json_str as a function of ai_response
extract_json_str(ai) ==
    IF Contains(ai, JsonFence) THEN
        LET start == Find(ai, JsonFence, 0) + 7
            end   == Find(ai, Fence, start)
        IN  Strip(Slice(ai, start, end))
    ELSE IF Contains(ai, Fence) THEN
        LET start == Find(ai, Fence, 0) + 3
            end   == Find(ai, Fence, start)
        IN  Strip(Slice(ai, start, end))
    ELSE Strip(ai)

\* parse_ai_response(ai_response): the roadmap, or the exception it raises
parse_ai_response(ai) ==
    LET r == JsonLoads(extract_json_str(ai))
    IN  IF ~r.ok THEN [ok |-> FALSE, val |-> PyNone, exc |-> "ValueError: Invalid JSON response from AI"]
        ELSE IF InRaises(r.val) THEN [ok |-> FALSE, val |-> PyNone, exc |-> "TypeError"]
        ELSE IF ~In(KeyRoadmap, r.val)
        THEN [ok |-> FALSE, val |-> PyNone, exc |-> "ValueError: Response missing 'roadmap' field"]
        ELSE [ok |-> TRUE, val |-> r.val, exc |-> ""]

\* error_response(status_code, message)
error_response(status_code, message) ==
    [statusCode |-> status_code,
     body |-> [error |-> message, timestamp |-> Now]]

\* a success response that carries roadmap['roadmap'] instead of roadmap
success_response_unwrapped(level, ts, wt, rm) ==
    [statusCode |-> 200,
     body |-> [message |-> "Learning roadmap generated successfully",
               user_level |-> level,
               total_solved |-> ts,
               weak_topics |-> wt,
               roadmap |-> IF rm.t = "dict" THEN rm.items[1] ELSE rm,
               generated_at |-> Now]]

\* the dict lambda_handler returns on success
success_response(level, ts, wt, rm) ==
    [statusCode |-> 200,
     body |-> [message |-> "Learning roadmap generated successfully",
               user_level |-> level,
               total_solved |-> ts,
               weak_topics |-> wt,
               roadmap |-> rm,
               generated_at |-> Now]]

\* the validation of lambda_handler: the message of the 400 response, "" to go on
validation_error(wt, ts) ==
    IF ~Truthy(wt) THEN "weak_topics is required and cannot be empty"
    ELSE IF ~IsInstanceList(wt) THEN "weak_topics must be a list"
    ELSE IF ~IsInstanceIntFloat(ts) THEN "total_solved must be a number"
    ELSE ""

----------------------------------------------------------------------------
(* task2-bedrock-ai-lambda: requests and model replies *)
Q == <<"\"">>
TopicDP    == PyStr(<<"D", "P">>)
TopicGraph == PyStr(<<"G", "r", "a", "p", "h">>)

DocRoadmap  == <<"{">> \o Q \o KeyRoadmap \o Q \o <<":", "[", "]", "}">>
DocPlan     == <<"{">> \o Q \o KeyPlan \o Q \o <<":", "[", "]", "}">>
DocArray    == <<"[">> \o Q \o KeyRoadmap \o Q \o <<"]">>
DocEmptyArr == <<"[", "]">>
DocString   == Q \o KeyRoadmap \o Q
DocNumber   == <<"7">>
DocTicks    == <<"{">> \o Q \o KeyRoadmap \o Q \o <<":">> \o Q \o Fence \o Q \o <<"}">>
Prose       == <<"x">>

\* values of event['weak_topics']
WeakTopicsInputs ==
    {Absent, PyNone, PyList(<<>>), PyList(<<TopicDP>>), PyList(<<TopicDP, TopicGraph>>),
     PyList(<<PyInt(1)>>), PyList(<<TopicDP, PyInt(1)>>), TopicDP, PyStr(<<>>),
     PyInt(5), PyDict(<<KeyPlan>>, <<TopicDP>>)}

\* values of event['total_solved']
TotalSolvedInputs ==
    {Absent, PyInt(0 - 1), PyInt(0), PyInt(49), PyInt(50), PyInt(150), PyInt(199), PyInt(200),
     PyFloat(49, TRUE), PyFloat(199, TRUE), PyBool(TRUE), PyStr(<<"1", "5", "0">>),
     PyNone, PyList(<<>>)}

\* events: a dict with the two keys present or not, or a value that is no dict
Events ==
    {[t |-> "dict", weak_topics |-> w, total_solved |-> n] :
        w \in WeakTopicsInputs, n \in TotalSolvedInputs}
    \cup {[t |-> "none", weak_topics |-> Absent, total_solved |-> Absent]}

\* texts the model may put in content[0].text
Replies ==
    {DocRoadmap,
     JsonFence \o <<NL>> \o DocRoadmap \o <<NL>> \o Fence,
     Fence \o <<NL>> \o DocRoadmap \o <<NL>> \o Fence,
     Prose \o JsonFence \o DocRoadmap \o Fence \o Prose,
     JsonFence \o <<NL>> \o DocRoadmap,
     DocPlan, DocArray, DocEmptyArr, DocString, DocNumber, DocTicks, Prose, <<>>}

\* what bedrock_runtime.invoke_model and the reading of its payload yield
ModelOutcomes ==
    {[kind |-> "raise", text |-> <<>>], [kind |-> "no_text", text |-> <<>>]}
    \cup {[kind |-> "text", text |-> r] : r \in Replies}

NoResponse == [statusCode |-> 0, body |-> [pending |-> TRUE]]

----------------------------------------------------------------------------
(* task2-bedrock-ai-lambda: lambda_handler, one step per stage *)
RoadmapInit ==
    /\ pc = "idle"
    /\ event = [t |-> "none", weak_topics |-> Absent, total_solved |-> Absent]
    /\ weak_topics = Absent
    /\ total_solved = Absent
    /\ user_level = ""
    /\ prompt = [skill_level |-> "", topics_str |-> <<>>]
    /\ ai_response = <<>>
    /\ roadmap = PyNone
    /\ response = NoResponse
    /\ invocations = 0
    /\ reached = {}
    /\ modelOutcome = ""

\* return resp from lambda_handler
Return(resp) ==
    /\ response' = resp
    /\ pc' = "done"

\* a lambda_handler without its except clause: exception e leaves the handler
HandlerPropagates(e) ==
    /\ pc' = "raised"
    /\ UNCHANGED response

\* the except clause of lambda_handler: exception e becomes a 500 response
HandlerExcept(e) == Return(error_response(500, <<"Internal server error: ", e>>))

\* the runtime calls lambda_handler(event, context)
Start(ev) ==
    /\ pc \in {"idle", "done"}
    /\ UNCHANGED nonRoadmapVars
    /\ pc' = "validate"
    /\ event' = ev
    /\ weak_topics' = Absent
    /\ total_solved' = Absent
    /\ user_level' = ""
    /\ prompt' = [skill_level |-> "", topics_str |-> <<>>]
    /\ ai_response' = <<>>
    /\ roadmap' = PyNone
    /\ response' = NoResponse
    /\ invocations' = 0
    /\ reached' = {}
    /\ modelOutcome' = ""

\* lambda_handler, extraction of the parameters and validation
Validate ==
    /\ pc = "validate"
    /\ UNCHANGED nonRoadmapVars
    /\ IF event.t # "dict"
       THEN /\ HandlerExcept("AttributeError")
            /\ UNCHANGED <<weak_topics, total_solved>>
       ELSE LET wt  == DictGet(event, "weak_topics", PyList(<<>>))
                ts  == DictGet(event, "total_solved", PyInt(0))
                msg == validation_error(wt, ts)
            IN  /\ weak_topics' = wt
                /\ total_solved' = ts
                /\ IF msg # ""
                   THEN Return(error_response(400, <<msg>>))
                   ELSE pc' = "classify" /\ UNCHANGED response
    /\ UNCHANGED <<event, user_level, prompt, ai_response, roadmap, invocations, reached,
                   modelOutcome>>

\* lambda_handler: user_level = determine_user_level(total_solved)
Classify ==
    /\ pc = "classify"
    /\ UNCHANGED nonRoadmapVars
    /\ reached' = reached \cup {"classify"}
    /\ user_level' = determine_user_level(total_solved)
    /\ pc' = "prompt"
    /\ UNCHANGED <<event, weak_topics, total_solved, prompt, ai_response, roadmap,
                   response, invocations, modelOutcome>>

\* generate_learning_roadmap: prompt = build_prompt(weak_topics, user_level)
BuildPrompt ==
    /\ pc = "prompt"
    /\ UNCHANGED nonRoadmapVars
    /\ reached' = reached \cup {"prompt"}
    /\ IF JoinRaises(weak_topics)
       THEN HandlerExcept("TypeError") /\ UNCHANGED prompt
       ELSE /\ prompt' = build_prompt(weak_topics, user_level)
            /\ pc' = "invoke"
            /\ UNCHANGED response
    /\ UNCHANGED <<event, weak_topics, total_solved, user_level, ai_response, roadmap,
                   invocations, modelOutcome>>

\* a generate_learning_roadmap whose except clause invokes the model again
InvokeFailedRetry(e) ==
    /\ pc' = "invoke"
    /\ UNCHANGED response

\* generate_learning_roadmap when the invocation failed with exception e:
\* the except clause re-raises, lambda_handler answers 500
InvokeFailed(e) == HandlerExcept(e)

\* generate_learning_roadmap: invoke_model and the reading of content[0].text
InvokeModel(outcome) ==
    /\ pc = "invoke"
    /\ UNCHANGED nonRoadmapVars
    /\ reached' = reached \cup {"invoke"}
    /\ invocations' = invocations + 1
    /\ modelOutcome' = outcome.kind
    /\ IF outcome.kind = "raise"
       THEN InvokeFailed("ClientError") /\ UNCHANGED ai_response
       ELSE IF outcome.kind = "no_text"
       THEN InvokeFailed("KeyError") /\ UNCHANGED ai_response
       ELSE /\ ai_response' = outcome.text
            /\ pc' = "parse"
            /\ UNCHANGED response
    /\ UNCHANGED <<event, weak_topics, total_solved, user_level, prompt, roadmap>>

\* generate_learning_roadmap: roadmap = parse_ai_response(ai_response)
Parse ==
    /\ pc = "parse"
    /\ UNCHANGED nonRoadmapVars
    /\ reached' = reached \cup {"parse"}
    /\ LET r == parse_ai_response(ai_response)
       IN  IF r.ok
           THEN roadmap' = r.val /\ pc' = "respond" /\ UNCHANGED response
           ELSE HandlerExcept(r.exc) /\ UNCHANGED roadmap
    /\ UNCHANGED <<event, weak_topics, total_solved, user_level, prompt, ai_response,
                   invocations, modelOutcome>>

\* lambda_handler: the success response, serialized by json.dumps
Respond ==
    /\ pc = "respond"
    /\ UNCHANGED nonRoadmapVars
    /\ IF Serializable(total_solved) /\ Serializable(weak_topics) /\ Serializable(roadmap)
       THEN Return(success_response(user_level, total_solved, weak_topics, roadmap))
       ELSE HandlerExcept("TypeError")
    /\ UNCHANGED <<event, weak_topics, total_solved, user_level, prompt, ai_response,
                   roadmap, invocations, reached, modelOutcome>>

RoadmapNext ==
    \/ \E ev \in Events : Start(ev)
    \/ Validate
    \/ Classify
    \/ BuildPrompt
    \/ \E outcome \in ModelOutcomes : InvokeModel(outcome)
    \/ Parse
    \/ Respond

----------------------------------------------------------------------------
(* Extraction study: parse_ai_response's extraction applied to raw replies *)
(* assembled from at most MaxChunks pieces                                 *)
Chunks == {Fence, JsonFence, <<BT>>, <<NL>>, DocRoadmap, DocTicks, DocArray, Prose}

RECURSIVE RawReplies(_)
RawReplies(n) ==
    IF n = 0 THEN {<<>>}
    ELSE LET shorter == RawReplies(n - 1)
         IN  shorter \cup {r \o c : r \in shorter, c \in Chunks}

ExtractInit ==
    /\ xRaw \in RawReplies(MaxChunks)
    /\ xOut = <<>>
    /\ xDone = FALSE

ExtractIdle ==
    /\ xRaw = <<>>
    /\ xOut = <<>>
    /\ xDone = FALSE

\* the if/elif/else of parse_ai_response that computes json_str
ApplyExtract ==
    /\ ~xDone
    /\ UNCHANGED nonExtractVars
    /\ xOut' = extract_json_str(xRaw)
    /\ xDone' = TRUE
    /\ UNCHANGED xRaw

----------------------------------------------------------------------------
(* Classification study: determine_user_level on a range of numbers *)
LevelInputs ==
    {PyInt(n) : n \in (0 - MaxNeg)..MaxSolved}
    \cup {PyFloat(n, TRUE) : n \in (0 - MaxNeg)..MaxSolved}
    \cup {PyBool(TRUE), PyBool(FALSE)}

LevelInit ==
    /\ lvIn \in LevelInputs
    /\ lvOut = ""

LevelIdle ==
    /\ lvIn = PyInt(0)
    /\ lvOut = ""

\* a call of determine_user_level
ApplyLevel ==
    /\ lvOut = ""
    /\ UNCHANGED nonLevelVars
    /\ lvOut' = determine_user_level(lvIn)
    /\ UNCHANGED lvIn

----------------------------------------------------------------------------
(* task1-dynamodb-lambda *)
User1 == <<"u", "1">>
User2 == <<"u", "2">>
UserKeys == {User1, User2}
TopicArray == PyStr(<<"A", "r", "r", "a", "y">>)

NoItem == [missing |-> TRUE]          \* get_item finds no item under the key
NoProfile == [t |-> "absent", weak_topics |-> Absent, strong_topics |-> Absent,
              total_solved |-> Absent]

\* values of event['profile_data']: a dict with some of its keys, None, or a str
ProfileDataInputs ==
    {[t |-> "dict", weak_topics |-> w, strong_topics |-> g, total_solved |-> n] :
        w \in {PyList(<<TopicArray>>), PyList(<<>>), TopicArray},
        g \in {PyList(<<>>), Absent},
        n \in {PyInt(150), PyInt(10), PyFloat(150, TRUE), PyStr(<<"1", "5", "0">>)}}
    \cup {NoProfile,
          [t |-> "dict", weak_topics |-> Absent, strong_topics |-> Absent,
           total_solved |-> Absent],
          [t |-> "str", weak_topics |-> Absent, strong_topics |-> Absent,
           total_solved |-> Absent]}

UserIdInputs == {PyStr(User1), PyStr(User2), PyStr(<<>>), Absent}

ProfileEvents ==
    {[operation |-> op, user_id |-> u, profile_data |-> d] :
        op \in {"store_profile"}, u \in UserIdInputs, d \in ProfileDataInputs}
    \cup {[operation |-> op, user_id |-> u, profile_data |-> NoProfile] :
        op \in {"get_profile", "delete_profile", ""}, u \in UserIdInputs}

\* bool(profile_data): None and the empty dict are false
ProfileDataTruthy(d) ==
    CASE d.t = "absent" -> FALSE
      [] d.t = "dict"   -> \E k \in {"weak_topics", "strong_topics", "total_solved"} :
                               d[k].t # "absent"
      [] OTHER          -> TRUE

\* int(v) for a number: truncation towards zero
IntOf(v) == IF v.t = "float" /\ v.frac /\ v.n < 0 THEN v.n + 1 ELSE v.n

RECURSIVE FromDynamo(_)
\* boto3's TypeDeserializer, applied by Table.get_item: a number comes back
\* as decimal.Decimal, a list element by element
FromDynamo(v) ==
    CASE v.t \in {"int", "float", "decimal"} -> PyDecimal(v.n)
      [] v.t = "list" -> PyList([i \in 1..Len(v.items) |-> FromDynamo(v.items[i])])
      [] OTHER -> v

RECURSIVE PutRaises(_)
\* boto3's TypeSerializer, applied by Table.put_item, rejects a Python float
PutRaises(v) ==
    \/ v.t = "float"
    \/ \E i \in 1..Len(v.items) : PutRaises(v.items[i])

\* the item store_profile builds from user_id and profile_data
make_item(user_id, d) ==
    [user_id |-> user_id,
     weak_topics |-> d.weak_topics,
     strong_topics |-> d.strong_topics,
     total_solved |-> PyInt(IntOf(d.total_solved)),
     created_at |-> Now,
     updated_at |-> Now]

\* response['Item'] as get_profile receives it
read_item(item) ==
    [item EXCEPT !.weak_topics = FromDynamo(@),
                 !.strong_topics = FromDynamo(@),
                 !.total_solved = FromDynamo(@)]

\* json.dumps accepts a body that holds this item
ItemSerializable(item) ==
    /\ Serializable(item.weak_topics)
    /\ Serializable(item.strong_topics)
    /\ Serializable(item.total_solved)

\* the validation of store_profile: 400 with a message, 500 for the exception
\* of profile_data.get on a str, 0 to go on
store_validation(user_id, d) ==
    IF ~Truthy(user_id) THEN [code |-> 400, msg |-> "user_id is required"]
    ELSE IF ~ProfileDataTruthy(d) THEN [code |-> 400, msg |-> "profile_data is required"]
    ELSE IF d.t # "dict" THEN [code |-> 500, msg |-> "AttributeError"]
    ELSE IF ~IsInstanceList(d.weak_topics) THEN [code |-> 400, msg |-> "weak_topics must be a list"]
    ELSE IF ~IsInstanceList(d.strong_topics) THEN [code |-> 400, msg |-> "strong_topics must be a list"]
    ELSE IF ~IsInstanceIntFloat(d.total_solved) THEN [code |-> 400, msg |-> "total_solved must be a number"]
    ELSE [code |-> 0, msg |-> ""]

ProfileInit ==
    /\ table = [u \in UserKeys |-> NoItem]
    /\ pEvent = [operation |-> "", user_id |-> Absent, profile_data |-> NoProfile]
    /\ pResponse = NoResponse
    /\ stored = [u \in UserKeys |-> NoProfile]

\* lambda_handler -> store_profile(event); dbFails: put_item raises ClientError
StoreProfile(ev, dbFails) ==
    /\ ev.operation = "store_profile"
    /\ UNCHANGED nonProfileVars
    /\ pEvent' = ev
    /\ LET check == store_validation(ev.user_id, ev.profile_data)
           item  == make_item(ev.user_id, ev.profile_data)
       IN  IF check.code = 400
           THEN /\ pResponse' = error_response(400, <<check.msg>>)
                /\ UNCHANGED <<table, stored>>
           ELSE IF check.code = 500
           THEN /\ pResponse' = error_response(500, <<"Failed to store profile: ", check.msg>>)
                /\ UNCHANGED <<table, stored>>
           ELSE IF PutRaises(item.weak_topics) \/ PutRaises(item.strong_topics)
           THEN /\ pResponse' = error_response(500, <<"Failed to store profile: ", "TypeError">>)
                /\ UNCHANGED <<table, stored>>
           ELSE IF dbFails
           THEN /\ pResponse' = error_response(500, <<"Failed to store profile: ", "ClientError">>)
                /\ UNCHANGED <<table, stored>>
           ELSE /\ table' = [table EXCEPT ![ev.user_id.s] = item]
                /\ stored' = [stored EXCEPT ![ev.user_id.s] = ev.profile_data]
                /\ pResponse' =
                     IF ItemSerializable(item)
                     THEN [statusCode |-> 200,
                           body |-> [message |-> "Profile stored successfully",
                                     user_id |-> ev.user_id,
                                     profile |-> item]]
                     ELSE error_response(500, <<"Failed to store profile: ", "TypeError">>)

\* lambda_handler -> get_profile(event); dbFails: get_item raises ClientError
GetProfile(ev, dbFails) ==
    /\ ev.operation = "get_profile"
    /\ UNCHANGED nonProfileVars
    /\ pEvent' = ev
    /\ UNCHANGED <<table, stored>>
    /\ IF ~Truthy(ev.user_id)
       THEN pResponse' = error_response(400, <<"user_id is required">>)
       ELSE IF dbFails
       THEN pResponse' = error_response(500, <<"Failed to retrieve profile: ", "ClientError">>)
       ELSE IF table[ev.user_id.s] = NoItem
       THEN pResponse' = error_response(404, <<"Profile not found for user_id: ", ev.user_id.s>>)
       ELSE LET profile == read_item(table[ev.user_id.s])
            IN  pResponse' =
                  IF ItemSerializable(profile)
                  THEN [statusCode |-> 200,
                        body |-> [message |-> "Profile retrieved successfully",
                                  user_id |-> ev.user_id,
                                  profile |-> profile]]
                  ELSE error_response(500, <<"Failed to retrieve profile: ", "TypeError">>)

\* lambda_handler: any other operation
InvalidOperation(ev) ==
    /\ ev.operation \notin {"store_profile", "get_profile"}
    /\ UNCHANGED nonProfileVars
    /\ pEvent' = ev
    /\ pResponse' = error_response(400, <<"Invalid operation: ", ev.operation>>)
    /\ UNCHANGED <<table, stored>>

ProfileNext ==
    \/ \E ev \in ProfileEvents, dbFails \in BOOLEAN : StoreProfile(ev, dbFails)
    \/ \E ev \in ProfileEvents, dbFails \in BOOLEAN : GetProfile(ev, dbFails)
    \/ \E ev \in ProfileEvents : InvalidOperation(ev)

----------------------------------------------------------------------------
(* Specifications *)
\* the roadmap lambda
Init == RoadmapInit /\ ExtractIdle /\ LevelIdle /\ ProfileInit
Next == RoadmapNext
Spec == Init /\ [][Next]_vars

\* the extraction study
InitExtract == RoadmapInit /\ ExtractInit /\ LevelIdle /\ ProfileInit
NextExtract == ApplyExtract
SpecExtract == InitExtract /\ [][NextExtract]_vars

\* the classification study
InitLevel == RoadmapInit /\ ExtractIdle /\ LevelInit /\ ProfileInit
NextLevel == ApplyLevel
SpecLevel == InitLevel /\ [][NextLevel]_vars

\* the profile lambda
InitProfile == RoadmapInit /\ ExtractIdle /\ LevelIdle /\ ProfileInit
NextProfile == ProfileNext
SpecProfile == InitProfile /\ [][NextProfile]_vars

----------------------------------------------------------------------------
(* Properties *)

\* "a number" of the request schema: a JSON number, integer or fractional
ClaimIsNumber(v) == v.t \in {"int", "float"}

\* weak_topics absent, empty or not a list
ClaimWeakTopicsBad(v) == v.t # "list" \/ Len(v.items) = 0

\* a keyed structure with a top-level key named roadmap
ClaimHasRoadmap(v) == v.t = "dict" /\ \E i \in 1..Len(v.keys) : v.keys[i] = KeyRoadmap

\* a response carries a timestamp, named timestamp or generated_at
HasTimestamp(resp) ==
    "timestamp" \in DOMAIN resp.body \/ "generated_at" \in DOMAIN resp.body

\* C1: a request whose weak_topics is absent, empty or not a list, or whose
\* total_solved is not a number, is answered 400; the model is never invoked
\* for it and classification, prompt building and parsing are never reached.
C1_Claim ==
    (/\ pc # "idle"
     /\ event.t = "dict"
     /\ \/ ClaimWeakTopicsBad(event.weak_topics)
        \/ (event.total_solved.t # "absent" /\ ~ClaimIsNumber(event.total_solved)))
    => /\ invocations = 0
       /\ reached = {}
       /\ pc = "done" => response.statusCode = 400

\* C2: parse_ai_response fails exactly when the candidate is no JSON, is no
\* keyed structure or lacks the key roadmap, and otherwise returns the parsed
\* structure unchanged; so every roadmap of a 200 response is a keyed structure
\* with a top-level roadmap field, and a failure is answered 500 without a
\* second invocation.
C2_Claim ==
    /\ "parse" \in reached =>
          LET r == JsonLoads(extract_json_str(ai_response))
          IN  IF r.ok /\ ClaimHasRoadmap(r.val)
              THEN pc \in {"respond", "done"} /\ roadmap = r.val
              ELSE pc = "done" /\ response.statusCode = 500 /\ invocations = 1
    /\ (pc = "done" /\ response.statusCode = 200) => ClaimHasRoadmap(response.body.roadmap)

\* C3: when the invocation fails (invoke_model raises, or the payload lacks
\* content[0].text) the handler answers 500 with no roadmap field, and in no
\* request is invoke_model called more than once.
C3_Theorem ==
    /\ invocations <= 1
    /\ (pc = "done" /\ modelOutcome \in {"raise", "no_text"}) =>
          /\ response.statusCode = 500
          /\ "roadmap" \notin DOMAIN response.body
          /\ invocations = 1

C3_Witness ==
    /\ pc = "done"
    /\ modelOutcome = "no_text"
    /\ response.statusCode = 500
    /\ invocations = 1

\* the text from the end of the first occurrence of open to the next fence
\* delimiter after it, to the end of the reply when no delimiter follows
ClaimedBetween(raw, open) ==
    LET start == Find(raw, open, 0) + Len(open)
        close == Find(raw, Fence, start)
    IN  Strip(SubSeq(raw, start + 1, IF close = 0 - 1 THEN Len(raw) ELSE close))

\* the three ordered checks as the specification words them
ClaimedExtract(raw) ==
    IF Contains(raw, JsonFence) THEN ClaimedBetween(raw, JsonFence)
    ELSE IF Contains(raw, Fence) THEN ClaimedBetween(raw, Fence)
    ELSE Strip(raw)

\* C4: for every raw reply the extraction is, first match wins: the trimmed
\* text between the JSON-tagged opening fence and the next fence delimiter
\* after it; else the trimmed text between the first fence delimiter and the
\* next one after it; else the whole reply trimmed.
C4_Claim == xDone => xOut = ClaimedExtract(xRaw)

\* C5 as stated: for every well-formed JSON text given as the raw reply, the
\* extracted candidate is the reply stripped.
C5_Claim == (xDone /\ JsonLoads(xRaw).ok) => xOut = Strip(xRaw)

\* C5, amended: for every well-formed JSON text that holds no fence delimiter
\* anywhere (its string values included), the extracted candidate is the reply
\* stripped.
C5_Theorem ==
    (xDone /\ JsonLoads(xRaw).ok /\ ~Contains(xRaw, Fence)) => xOut = Strip(xRaw)

C5_Witness ==
    /\ xDone
    /\ xRaw = <<NL>> \o DocRoadmap \o <<NL>>
    /\ xOut = DocRoadmap

\* twice the value of a number
Twice(v) == 2 * v.n + (IF v.frac THEN 1 ELSE 0)

\* C6: determine_user_level is total with half-open intervals: Beginner below
\* 50 (negative values included), Intermediate from 50 to below 200, Advanced
\* from 200; 49 -> Beginner, 50 -> Intermediate, 199 -> Intermediate,
\* 200 -> Advanced.
C6_Theorem ==
    lvOut # "" =>
        /\ lvOut \in {"Beginner", "Intermediate", "Advanced"}
        /\ Twice(lvIn) < 100 => lvOut = "Beginner"
        /\ (100 <= Twice(lvIn) /\ Twice(lvIn) < 400) => lvOut = "Intermediate"
        /\ Twice(lvIn) >= 400 => lvOut = "Advanced"
        /\ lvIn = PyInt(49) => lvOut = "Beginner"
        /\ lvIn = PyInt(50) => lvOut = "Intermediate"
        /\ lvIn = PyInt(199) => lvOut = "Intermediate"
        /\ lvIn = PyInt(200) => lvOut = "Advanced"

C6_Witness == lvIn = PyInt(50) /\ lvOut = "Intermediate"

\* C7: for every event and every behaviour of the model the handler ends by
\* returning a response, never by an exception that leaves it; every response
\* has a statusCode in {200, 400, 500} and a timestamp, and has a roadmap only
\* when its statusCode is 200.
C7_Theorem ==
    /\ pc \in {"idle", "validate", "classify", "prompt", "invoke", "parse", "respond", "done"}
    /\ pc = "done" =>
          /\ response.statusCode \in {200, 400, 500}
          /\ HasTimestamp(response)
          /\ "roadmap" \in DOMAIN response.body => response.statusCode = 200

C7_Witness ==
    /\ pc = "done"
    /\ event.t = "none"
    /\ response.statusCode = 500
    /\ HasTimestamp(response)

\* C8: a 200 response has user_level = determine_user_level(total_solved) of
\* the request, the request's total_solved and weak_topics unchanged, and as
\* roadmap the structure parsed from the model's reply, unchanged.
C8_Theorem ==
    (pc = "done" /\ response.statusCode = 200) =>
        /\ response.body.user_level =
              determine_user_level(DictGet(event, "total_solved", PyInt(0)))
        /\ event.total_solved = PyInt(150) => response.body.user_level = "Intermediate"
        /\ event.total_solved.t # "absent" => response.body.total_solved = event.total_solved
        /\ response.body.weak_topics = event.weak_topics
        /\ response.body.roadmap = JsonLoads(extract_json_str(ai_response)).val

C8_Witness ==
    /\ pc = "done"
    /\ response.statusCode = 200
    /\ event.total_solved = PyInt(150)
    /\ event.weak_topics = PyList(<<TopicDP>>)
    /\ ai_response = JsonFence \o <<NL>> \o DocRoadmap \o <<NL>> \o Fence
    /\ response.body.user_level = "Intermediate"
    /\ response.body.roadmap = PyDict(<<KeyRoadmap>>, <<PyList(<<>>)>>)

\* the request passes the validation as the claim words it
ClaimPassesValidation ==
    /\ event.t = "dict"
    /\ ~ClaimWeakTopicsBad(event.weak_topics)
    /\ ClaimIsNumber(event.total_solved)

\* C9 as stated: every request that passes the validation gets a prompt and
\* exactly one call of invoke_model, whatever the elements of weak_topics.
C9_Claim ==
    (pc = "done" /\ ClaimPassesValidation) =>
        /\ invocations = 1
        /\ {"classify", "prompt", "invoke"} \subseteq reached

\* C9, amended: a request that passes the validation and whose weak_topics
\* holds only strings gets a prompt and exactly one call of invoke_model; when
\* some element is not a string, build_prompt raises, the model is not invoked
\* and the answer is 500.
C9_Theorem ==
    (pc \in {"parse", "respond", "done"} /\ ClaimPassesValidation) =>
        IF \A i \in 1..Len(event.weak_topics.items) : event.weak_topics.items[i].t = "str"
        THEN /\ invocations = 1
             /\ {"classify", "prompt", "invoke"} \subseteq reached
             /\ prompt = build_prompt(event.weak_topics, user_level)
        ELSE /\ invocations = 0
             /\ pc = "done"
             /\ response.statusCode = 500

C9_Witness ==
    /\ pc = "done"
    /\ event.weak_topics = PyList(<<TopicDP, TopicGraph>>)
    /\ ClaimIsNumber(event.total_solved)
    /\ invocations = 1
    /\ prompt.topics_str = <<"D", "P", ",", " ", "G", "r", "a", "p", "h">>

\* get_item or put_item itself failed
ServiceFailure(resp) ==
    /\ resp.statusCode = 500
    /\ resp.body.error = <<"Failed to retrieve profile: ", "ClientError">>

\* the number a stored total_solved stands for
NumberOf(v) == IF v.t \in {"int", "float", "bool", "decimal"} THEN Twice(v) ELSE 0 - 1

\* C10: get_profile(user_id) answers 404 exactly when no store_profile for
\* that user_id has succeeded before, and otherwise 200 with the weak_topics,
\* strong_topics and total_solved of the most recent successful store_profile.
C10_Claim ==
    (/\ pEvent.operation = "get_profile"
     /\ Truthy(pEvent.user_id)
     /\ ~ServiceFailure(pResponse))
    => LET last == stored[pEvent.user_id.s]
       IN  /\ pResponse.statusCode = 404 <=> last = NoProfile
           /\ last # NoProfile =>
                 /\ pResponse.statusCode = 200
                 /\ pResponse.body.profile.weak_topics = last.weak_topics
                 /\ pResponse.body.profile.strong_topics = last.strong_topics
                 /\ NumberOf(pResponse.body.profile.total_solved) = NumberOf(last.total_solved)

====
